---- MODULE Spec2Model ----
(***************************************************************************)
(* Model of packages/example/pages/guess-number.tsx: the GuessNumber page  *)
(* (chain API and Phala instance creation) and the Game component (Sign    *)
(* Certificate, Guess, Reveal, Reset handlers, their promise callbacks,    *)
(* the account effect and the unmount cleanup).                            *)
(***************************************************************************)
EXTENDS Integers, Sequences, FiniteSets, TLC

\* ---------------------------------------------------------------- bounds
\* Number of handler invocations (button clicks / form submissions) explored.
MaxCalls == 2

\* ------------------------------------------------------------- constants
CONTRACT_ID == 100

NoAccount == ""
Accounts == {"alice", "bob"}
NoCert == ""
NoSub == 0
\* values the user can type into the number input
NumberInputs == {"", "7", "-1"}

\* Number(number) of line 83 for the strings of NumberInputs
NumberOf(s) == IF s = "7" THEN 7 ELSE IF s = "-1" THEN 0 - 1 ELSE 0

\* The form is submitted only when its submit button is enabled, that is
\* number is not empty (239), and the input satisfies its min of 0 (230).
\* (Its max, 4294967295, is the largest u32; inputs above it are treated by
\* the form and by createType as those below 0 are, and are not enumerated.)
InputValid(s) == s # "" /\ NumberOf(s) >= 0

\* createType of a RandomNumber (u32, 267) from a number: throws when the
\* number is negative
U32Ok(n) == n >= 0

\* ------------------------------------------------- type schema (265-297)
\* The _enum declarations registered by createApi.
Schema ==
  [ GuessResult             |-> <<"TooLarge", "ToSmall", "Correct">>,
    GuessError              |-> <<"OriginUnavailable", "NotAuthorized">>,
    GuessNumberRequestData  |-> <<"QueryOwner", "Guess", "PeekRandomNumber">>,
    GuessNumberResponseData |-> <<"Owner", "GuessResult", "RandomNumber">>,
    GuessNumberCommand      |-> <<"NextRandom", "SetOwner">> ]

Range(s) == {s[i] : i \in DOMAIN s}

\* String.prototype.toLowerCase on the names that occur
LowerCase(s) ==
  CASE s = "QueryOwner"       -> "queryowner"
    [] s = "Guess"            -> "guess"
    [] s = "PeekRandomNumber" -> "peekrandomnumber"
    [] s = "NextRandom"       -> "nextrandom"
    [] s = "SetOwner"         -> "setowner"
    [] OTHER                  -> s

\* stringCamelCase on the variant names that occur
CamelCase(s) ==
  CASE s = "Owner"             -> "owner"
    [] s = "GuessResult"       -> "guessResult"
    [] s = "RandomNumber"      -> "randomNumber"
    [] s = "OriginUnavailable" -> "originUnavailable"
    [] s = "NotAuthorized"     -> "notAuthorized"
    [] OTHER                   -> s

\* api.createType(type, {key: ...}) on an enum type: the key selects a
\* declared variant, compared in lower case; otherwise createType throws.
EncodeOkCaseSensitive(type, key) ==
  key \in Range(Schema[type])

EncodeOk(type, key) ==
  LowerCase(key) \in {LowerCase(v) : v \in Range(Schema[type])}

\* keys the handlers put in the payloads they build
GuessKey  == "guess"
RevealKey == "reveal"
ResetKey  == "NextRandom"

\* ------------------------------------------------------ responses / JSON
NoJSON == [key |-> "", value |-> ""]
Truthy(j) == j # NoJSON
ObjectKeys0(j) == j.key

\* what a query can come back with: the promise rejects, the bytes do not
\* decode as GuessNumberResponse, or they decode to Result Ok / Err.
Response(t, variant, inner) == [t |-> t, variant |-> variant, inner |-> inner]
GuessResponses ==
  {Response("reject", "", ""), Response("undecodable", "", "")}
  \cup {Response("ok", "GuessResult", g) : g \in Range(Schema.GuessResult)}
  \cup {Response("err", e, "null") : e \in Range(Schema.GuessError)}
RevealResponses ==
  {Response("reject", "", ""), Response("undecodable", "", "")}
  \cup {Response("ok", "RandomNumber", "7")}
  \cup {Response("err", e, "null") : e \in Range(Schema.GuessError)}

\* createType('GuessNumberResponse', data).toJSON().result : an enum with a
\* value is rendered as {camelCase(variant): value.toJSON()}, a basic enum
\* (GuessResult, GuessError) as its variant name, a string, whose first own
\* key is "0". The schema names no Err type for the Result (292); a
\* GuessError is taken.
JSONString(str) == [key |-> "0", value |-> str]
ResultToJSON(r) ==
  [ ok  |-> IF r.t = "ok"  THEN [key |-> CamelCase(r.variant), value |-> r.inner] ELSE NoJSON,
    err |-> IF r.t = "err" THEN JSONString(r.variant) ELSE NoJSON ]

\* ----------------------------------------------------------------- state
VARIABLES
  page,                   \* "mounted" | "unmounted" : the GuessNumber page
  initPc,                 \* position of the initialisation effect (262-308)
  api, phala,             \* GuessNumber state: BOOLEAN (set or not)
  createCalls,            \* [api, phala] : calls made to createApi / createPhala
  apiConnected,           \* FALSE once api.disconnect() ran
  cleanupUnsub,           \* _unsubscribe captured by the cleanup effect (39)
  account,                \* accountAtom
  number,                 \* useState('')
  certificateData,        \* address the held certificate was signed for
  signCertificateLoading,
  guessLoading,
  unsubscribe,            \* unsubscribe.current : id of a Reset subscription
  signPc, signAccount,    \* pending onSignCertificate and the account it closed over
  inflight,               \* set of queries sent and not yet settled
  resets,                 \* sequence: one record per onReset that passed its guard
  subscriptions,          \* ids of Reset status subscriptions still active
  toasts,                 \* sequence of toasts; a toast's key is its index
  queriesSent,            \* sequence of calls made to phala.query
  payloads,               \* set of [type, key] handed to api.createType
  uncaught,               \* exceptions / rejections nothing caught
  guessLog,               \* one record per Guess that passed its guard
  nCalls, lastCall        \* handler invocations so far, and the last one

vars == <<page, initPc, api, phala, createCalls, apiConnected, cleanupUnsub,
          account, number, certificateData, signCertificateLoading,
          guessLoading, unsubscribe, signPc, signAccount, inflight, resets,
          subscriptions, toasts, queriesSent, payloads, uncaught, guessLog,
          nCalls, lastCall>>

initVars  == <<initPc, api, phala, createCalls>>
gameState == <<number, certificateData, signCertificateLoading, guessLoading>>
callVars  == <<nCalls, lastCall>>

\* Game is rendered exactly when api && phala (310-312)
GameMounted == page = "mounted" /\ api /\ phala

HasCertificateAlways(c) == TRUE

\* !certificateData (73, 123)
HasCertificate(c) == c # NoCert

\* a state setter of a component that is no longer mounted does nothing
SetState(mounted, cur, new) == IF mounted THEN new ELSE cur

\* toaster.<kind>(children, {autoHideDuration}) ; <<>> when {} is passed
Toast(kind, children, duration) ==
  [kind |-> kind, children |-> children, autoHideDuration |-> duration, cleared |-> FALSE]
ToasterUpdate(ts, key, children, duration) ==
  [ts EXCEPT ![key].children = children, ![key].autoHideDuration = duration]
ToasterClear(ts, key) == [ts EXCEPT ![key].cleared = TRUE]

Init ==
  /\ page = "mounted"
  /\ initPc = "createApi"
  /\ api = FALSE /\ phala = FALSE
  /\ createCalls = [api |-> 1, phala |-> 0]
  /\ apiConnected = FALSE
  /\ cleanupUnsub = NoSub
  /\ account \in Accounts \cup {NoAccount}
  /\ number = ""
  /\ certificateData = NoCert
  /\ signCertificateLoading = FALSE
  /\ guessLoading = FALSE
  /\ unsubscribe = NoSub
  /\ signPc = "idle" /\ signAccount = NoAccount
  /\ inflight = {}
  /\ resets = <<>>
  /\ subscriptions = {}
  /\ toasts = <<>>
  /\ queriesSent = <<>>
  /\ payloads = {}
  /\ uncaught = <<>>
  /\ guessLog = <<>>
  /\ nCalls = 0 /\ lastCall = "none"

\* ------------------------------------------------- GuessNumber (258-326)
\* createApi(...).then(api => { setApi(api); return createPhala(...)... })
CreateApiResolve ==
  /\ initPc = "createApi"
  /\ api' = SetState(page = "mounted", api, TRUE)
  /\ apiConnected' = TRUE
  /\ initPc' = "createPhala"
  /\ createCalls' = [createCalls EXCEPT !.phala = @ + 1]
  /\ UNCHANGED <<page, phala, cleanupUnsub, account, gameState, unsubscribe,
                 signPc, signAccount, inflight, resets, subscriptions, toasts,
                 queriesSent, payloads, uncaught, guessLog, callVars>>

\* createPhala(...).then(phala => setPhala(() => phala)) ; the render that
\* follows mounts Game, whose effects run: the cleanup effect captures
\* unsubscribe.current (39), the account effect clears the certificate (47).
CreatePhalaResolve ==
  /\ initPc = "createPhala"
  /\ phala' = SetState(page = "mounted", phala, TRUE)
  /\ initPc' = "done"
  /\ cleanupUnsub' = unsubscribe
  /\ certificateData' = NoCert
  /\ UNCHANGED <<page, api, createCalls, apiConnected, account, number,
                 signCertificateLoading, guessLoading, unsubscribe, signPc,
                 signAccount, inflight, resets, subscriptions, toasts,
                 queriesSent, payloads, uncaught, guessLog, callVars>>

InitRejectRetry ==
  /\ initPc \in {"createApi", "createPhala"}
  /\ createCalls.api < 2
  /\ toasts' = Append(toasts, Toast("negative", initPc, <<>>))
  /\ initPc' = "createApi"
  /\ createCalls' = [createCalls EXCEPT !.api = @ + 1]
  /\ UNCHANGED <<page, api, phala, apiConnected, cleanupUnsub,
                 account, gameState, unsubscribe, signPc, signAccount,
                 inflight, resets, subscriptions, queriesSent, payloads,
                 uncaught, guessLog, callVars>>

\* either promise rejects: .catch(err => toaster.negative(err.message, {}))
InitReject ==
  /\ initPc \in {"createApi", "createPhala"}
  /\ toasts' = Append(toasts, Toast("negative", initPc, <<>>))
  /\ initPc' = "failed"
  /\ UNCHANGED <<page, api, phala, createCalls, apiConnected, cleanupUnsub,
                 account, gameState, unsubscribe, signPc, signAccount,
                 inflight, resets, subscriptions, queriesSent, payloads,
                 uncaught, guessLog, callVars>>

\* ---------------------------------------------------- environment / user
\* accountAtom changes; Game's effect on [account] clears the certificate (46-48)
AccountChange ==
  /\ page = "mounted"
  /\ \E a \in (Accounts \cup {NoAccount}) \ {account} : account' = a
  /\ certificateData' = NoCert
  /\ UNCHANGED <<page, initVars, apiConnected, cleanupUnsub, number,
                 signCertificateLoading, guessLoading, unsubscribe, signPc,
                 signAccount, inflight, resets, subscriptions, toasts,
                 queriesSent, payloads, uncaught, guessLog, callVars>>

\* Input onChange (233)
SetNumber ==
  /\ GameMounted
  /\ \E s \in NumberInputs \ {number} : number' = s
  /\ UNCHANGED <<page, initVars, apiConnected, cleanupUnsub, account,
                 certificateData, signCertificateLoading, guessLoading,
                 unsubscribe, signPc, signAccount, inflight, resets,
                 subscriptions, toasts, queriesSent, payloads, uncaught,
                 guessLog, callVars>>

Called(h) == nCalls < MaxCalls /\ nCalls' = nCalls + 1 /\ lastCall' = h


\* ----------------------------------------------- onSignCertificate (50-68)
\* The button is disabled without an account (208) and ignores clicks while
\* isLoading (206).
OnSignCertificate ==
  /\ GameMounted
  /\ account # NoAccount
  /\ ~signCertificateLoading
  /\ Called("onSignCertificate")
  /\ signCertificateLoading' = TRUE
  /\ signPc' = "getSigner"
  /\ signAccount' = account
  /\ UNCHANGED <<page, initVars, apiConnected, cleanupUnsub, account, number,
                 certificateData, guessLoading, unsubscribe, inflight, resets,
                 subscriptions, toasts, queriesSent, payloads, uncaught,
                 guessLog>>

\* await getSigner(account) settles (54); a rejection goes to the catch (63-66)
SignGetSignerSettle ==
  /\ signPc = "getSigner"
  /\ \E ok \in BOOLEAN :
       IF ok
         THEN /\ signPc' = "signCertificate"
              /\ UNCHANGED <<toasts, signCertificateLoading, signAccount>>
         ELSE /\ toasts' = Append(toasts, Toast("negative", "getSigner failed", <<>>))
              /\ signCertificateLoading' = SetState(GameMounted, signCertificateLoading, FALSE)
              /\ signPc' = "idle"
              /\ signAccount' = NoAccount
  /\ UNCHANGED <<page, initVars, apiConnected, cleanupUnsub, account, number,
                 certificateData, guessLoading, unsubscribe, inflight, resets,
                 subscriptions, queriesSent, payloads, uncaught, guessLog,
                 callVars>>

\* await signCertificate({api, address: account.address, signer}) settles
\* (55-62): the certificate of the account the callback closed over is stored
SignCertificateSettle ==
  /\ signPc = "signCertificate"
  /\ \E ok \in BOOLEAN :
       IF ok
         THEN /\ certificateData' = SetState(GameMounted, certificateData, signAccount)
              /\ toasts' = Append(toasts, Toast("positive", "Certificate signed", <<>>))
         ELSE /\ toasts' = Append(toasts, Toast("negative", "signCertificate failed", <<>>))
              /\ UNCHANGED certificateData
  /\ signCertificateLoading' = SetState(GameMounted, signCertificateLoading, FALSE)
  /\ signPc' = "idle"
  /\ signAccount' = NoAccount
  /\ UNCHANGED <<page, initVars, apiConnected, cleanupUnsub, account, number,
                 guessLoading, unsubscribe, inflight, resets, subscriptions,
                 queriesSent, payloads, uncaught, guessLog, callVars>>

\* ------------------------------------------------------- queries (70-161)
Query(kind, cert, n, toastKey, guess) ==
  [kind |-> kind, contract |-> CONTRACT_ID, cert |-> cert, guess_number |-> n,
   toastKey |-> toastKey, guess |-> guess]

\* onGuess (70-90). The form is submitted only with a valid input, and the
\* submit button ignores clicks while isLoading (240).
OnGuess ==
  /\ GameMounted
  /\ InputValid(number)
  /\ ~guessLoading
  /\ Called("onGuess")
  /\ IF ~HasCertificate(certificateData)
       THEN UNCHANGED <<guessLoading, payloads, uncaught, queriesSent, inflight, guessLog>>
       ELSE /\ guessLoading' = TRUE
            /\ payloads' = payloads \cup {[type |-> "GuessNumberRequestData", key |-> GuessKey]}
            /\ guessLog' = Append(guessLog,
                  [response |-> Response("pending", "", ""), settled |-> FALSE,
                   toastKeys |-> {}, numberBefore |-> number, numberAfter |-> number])
            /\ IF EncodeOk("GuessNumberRequestData", GuessKey) /\ U32Ok(NumberOf(number))
                 THEN LET q == Query("guess", certificateData, NumberOf(number), 0,
                                     Len(guessLog) + 1)
                      IN  /\ queriesSent' = Append(queriesSent, q)
                          /\ inflight' = inflight \cup {q}
                          /\ UNCHANGED uncaught
                 ELSE /\ uncaught' = Append(uncaught, "onGuess: createType threw")
                      /\ UNCHANGED <<queriesSent, inflight>>
  /\ UNCHANGED <<page, initVars, apiConnected, cleanupUnsub, account, number,
                 certificateData, signCertificateLoading, unsubscribe, signPc,
                 signAccount, resets, subscriptions, toasts>>

\* onReveal (122-137)
OnReveal ==
  /\ GameMounted
  /\ Called("onReveal")
  /\ IF ~HasCertificate(certificateData)
       THEN UNCHANGED <<payloads, uncaught, queriesSent, inflight, toasts>>
       ELSE /\ payloads' = payloads \cup {[type |-> "GuessNumberRequestData", key |-> RevealKey]}
            /\ IF EncodeOk("GuessNumberRequestData", RevealKey)
                 THEN LET q == Query("reveal", certificateData, 0, Len(toasts) + 1, 0)
                      IN  /\ toasts' = Append(toasts, Toast("info", "Cheating...", <<0>>))
                          /\ queriesSent' = Append(queriesSent, q)
                          /\ inflight' = inflight \cup {q}
                          /\ UNCHANGED uncaught
                 ELSE /\ uncaught' = Append(uncaught, "onReveal: createType threw")
                      /\ UNCHANGED <<queriesSent, inflight, toasts>>
  /\ UNCHANGED <<page, initVars, apiConnected, cleanupUnsub, account, gameState,
                 unsubscribe, signPc, signAccount, resets, subscriptions,
                 guessLog>>

GuessThenSilentErr(r) ==
  LET json == ResultToJSON(r) IN
  CASE r.t = "reject"      -> [toasts |-> <<Toast("negative", "query rejected", <<>>)>>, clear |-> FALSE]
    [] r.t = "undecodable" -> [toasts |-> <<Toast("negative", "createType failed", <<>>)>>, clear |-> FALSE]
    [] OTHER ->
        [toasts |-> IF Truthy(json.ok) THEN <<Toast("info", ObjectKeys0(json.ok), <<>>)>> ELSE <<>>,
         clear  |-> FALSE]

\* The .then/.catch of onGuess (91-114) on a response r: the toasts it shows
\* and whether it calls setNumber('').
GuessThen(r) ==
  LET json == ResultToJSON(r) IN
  CASE r.t = "reject"      -> [toasts |-> <<Toast("negative", "query rejected", <<>>)>>, clear |-> FALSE]
    [] r.t = "undecodable" -> [toasts |-> <<Toast("negative", "createType failed", <<>>)>>, clear |-> FALSE]
    [] OTHER ->
        LET okPart  == IF Truthy(json.ok)
                         THEN IF ObjectKeys0(json.ok) = "correct"
                                THEN <<Toast("positive", "Correct! Number has been reset", <<>>)>>
                                ELSE <<Toast("info", ObjectKeys0(json.ok), <<>>)>>
                         ELSE <<>>
            errPart == IF Truthy(json.err)
                         THEN <<Toast("negative", ObjectKeys0(json.err), <<>>)>>
                         ELSE <<>>
        IN [toasts |-> okPart \o errPart,
            clear  |-> Truthy(json.ok) /\ ObjectKeys0(json.ok) = "correct"]

\* The .then/.catch of onReveal (138-160): the toast list after it ran
RevealThen(ts, key, r) ==
  LET json == ResultToJSON(r) IN
  CASE r.t = "reject"      -> Append(ToasterClear(ts, key), Toast("negative", "query rejected", <<>>))
    [] r.t = "undecodable" -> Append(ToasterClear(ts, key), Toast("negative", "createType failed", <<>>))
    [] OTHER ->
        LET ts1 == IF Truthy(json.ok)
                     THEN ToasterUpdate(ts, key, "Current number is " \o json.ok.value, <<3000>>)
                     ELSE ts
        IN IF Truthy(json.err)
             THEN Append(ToasterClear(ts1, key), Toast("negative", ObjectKeys0(json.err), <<>>))
             ELSE ts1

\* toast keys i+1..i+n
KeysAfter(ts, n) == {Len(ts) + k : k \in 1..n}

\* phala.query(...) settles and the promise chain of its handler runs:
\* .then, .catch and, for a guess, .finally (115-117)
QuerySettle ==
  \E q \in inflight :
  \E r \in (IF q.kind = "guess" THEN GuessResponses ELSE RevealResponses) :
    /\ inflight' = inflight \ {q}
    /\ IF q.kind = "guess"
         THEN LET out == GuessThen(r) IN
              /\ toasts' = toasts \o out.toasts
              /\ number' = SetState(GameMounted, number, IF out.clear THEN "" ELSE number)
              /\ guessLoading' = SetState(GameMounted, guessLoading, FALSE)
              /\ guessLog' = [guessLog EXCEPT ![q.guess] =
                   [response |-> r, settled |-> TRUE,
                    toastKeys |-> KeysAfter(toasts, Len(out.toasts)),
                    numberBefore |-> number, numberAfter |-> number']]
         ELSE /\ toasts' = RevealThen(toasts, q.toastKey, r)
              /\ UNCHANGED <<number, guessLoading, guessLog>>
    /\ UNCHANGED <<page, initVars, apiConnected, cleanupUnsub, account,
                   certificateData, signCertificateLoading, unsubscribe,
                   signPc, signAccount, resets, subscriptions, queriesSent,
                   payloads, uncaught, callVars>>


\* ------------------------------------------------------ onReset (163-192)
OnReset ==
  /\ GameMounted
  /\ Called("onReset")
  /\ IF account = NoAccount
       THEN UNCHANGED <<toasts, resets>>
       ELSE /\ toasts' = Append(toasts, Toast("info", "Resetting...", <<0>>))
            /\ resets' = Append(resets, [pc |-> "getSigner", toastKey |-> Len(toasts) + 1,
                                         account |-> account, status |-> "none"])
  /\ UNCHANGED <<page, initVars, apiConnected, cleanupUnsub, account, gameState,
                 unsubscribe, signPc, signAccount, inflight, subscriptions,
                 queriesSent, payloads, uncaught, guessLog>>

\* await getSigner(account) settles (166). No try/catch encloses it: a
\* rejection rejects the promise onReset returned, which nothing handles.
\* On success the payload is encoded and phala.command is called (167-183);
\* createType throwing there rejects the same promise.
ResetGetSignerSettle ==
  \E i \in DOMAIN resets :
    /\ resets[i].pc = "getSigner"
    /\ \E ok \in BOOLEAN :
         IF ok
           THEN /\ payloads' = payloads \cup {[type |-> "GuessNumberCommand", key |-> ResetKey]}
                /\ IF EncodeOk("GuessNumberCommand", ResetKey)
                     THEN /\ resets' = [resets EXCEPT ![i].pc = "command"]
                          /\ UNCHANGED uncaught
                     ELSE /\ resets' = [resets EXCEPT ![i].pc = "aborted"]
                          /\ uncaught' = Append(uncaught, "onReset: createType threw")
           ELSE /\ resets' = [resets EXCEPT ![i].pc = "aborted"]
                /\ uncaught' = Append(uncaught, "onReset: getSigner rejected")
                /\ UNCHANGED payloads
    /\ UNCHANGED <<page, initVars, apiConnected, cleanupUnsub, account, gameState,
                   unsubscribe, signPc, signAccount, inflight, subscriptions,
                   toasts, queriesSent, guessLog, callVars>>

\* await phala.command(...).catch(...) settles (167-191): on success the
\* unsubscribe function of the status subscription is stored in the ref; on
\* rejection the catch clears the progress toast and shows a negative one.
\* The command is a transaction sent through api: it can only succeed while
\* api is connected.
ResetCommandSettle ==
  \E i \in DOMAIN resets :
    /\ resets[i].pc = "command"
    /\ \E ok \in BOOLEAN :
         IF ok
           THEN /\ apiConnected
                /\ resets' = [resets EXCEPT ![i].pc = "subscribed"]
                /\ subscriptions' = subscriptions \cup {i}
                /\ unsubscribe' = i
                /\ UNCHANGED toasts
           ELSE /\ resets' = [resets EXCEPT ![i].pc = "failed"]
                /\ toasts' = Append(ToasterClear(toasts, resets[i].toastKey),
                                    Toast("negative", "command failed", <<>>))
                /\ UNCHANGED <<subscriptions, unsubscribe>>
    /\ UNCHANGED <<page, initVars, apiConnected, cleanupUnsub, account, gameState,
                   signPc, signAccount, inflight, queriesSent, payloads, uncaught,
                   guessLog, callVars>>

\* onStatus (175-182): the subscription reports the next status of the
\* transaction; the toast is updated when it is finalized.
NextStatus(st) == IF st = "none" THEN "inBlock" ELSE "finalized"
ResetStatus ==
  \E i \in DOMAIN resets :
    /\ i \in subscriptions
    /\ apiConnected
    /\ resets[i].status # "finalized"
    /\ LET st == NextStatus(resets[i].status) IN
         /\ resets' = [resets EXCEPT ![i].status = st]
         /\ toasts' = IF st = "finalized"
                        THEN ToasterUpdate(toasts, resets[i].toastKey,
                                           "Number has been reset", <<3000>>)
                        ELSE toasts
    /\ UNCHANGED <<page, initVars, apiConnected, cleanupUnsub, account, gameState,
                   unsubscribe, signPc, signAccount, inflight, subscriptions,
                   queriesSent, payloads, uncaught, guessLog, callVars>>

\* ---------------------------------------------------- unmount (38-44)
\* The page unmounts. If Game was rendered its cleanup runs: api.disconnect()
\* and the _unsubscribe captured when the effect ran. The component state is
\* discarded (shown here as its initial values).
Unmount ==
  /\ page = "mounted"
  /\ page' = "unmounted"
  /\ IF GameMounted
       THEN /\ apiConnected' = FALSE
            /\ subscriptions' = subscriptions \ {cleanupUnsub}
       ELSE UNCHANGED <<apiConnected, subscriptions>>
  /\ number' = ""
  /\ certificateData' = NoCert
  /\ signCertificateLoading' = FALSE
  /\ guessLoading' = FALSE
  /\ UNCHANGED <<initVars, cleanupUnsub, account, unsubscribe, signPc,
                 signAccount, inflight, resets, toasts, queriesSent, payloads,
                 uncaught, guessLog, callVars>>

\* ------------------------------------------------------- specification
Next ==
  \/ CreateApiResolve
  \/ CreatePhalaResolve
  \/ InitReject
  \/ AccountChange
  \/ SetNumber
  \/ OnSignCertificate
  \/ SignGetSignerSettle
  \/ SignCertificateSettle
  \/ OnGuess
  \/ OnReveal
  \/ QuerySettle
  \/ OnReset
  \/ ResetGetSignerSettle
  \/ ResetCommandSettle
  \/ ResetStatus
  \/ Unmount

Spec == Init /\ [][Next]_vars

\* Every promise the handlers wait for settles, and the callbacks queued on
\* it run: the event loop leaves no settled promise's reaction unexecuted.
Settles ==
  /\ WF_vars(SignGetSignerSettle)
  /\ WF_vars(SignCertificateSettle)
  /\ WF_vars(QuerySettle)
  /\ WF_vars(ResetGetSignerSettle)
  /\ WF_vars(ResetCommandSettle)

FairSpec == Spec /\ Settles

TypeOK ==
  /\ page \in {"mounted", "unmounted"}
  /\ initPc \in {"createApi", "createPhala", "done", "failed"}
  /\ api \in BOOLEAN /\ phala \in BOOLEAN
  /\ account \in Accounts \cup {NoAccount}
  /\ number \in NumberInputs
  /\ certificateData \in Accounts \cup {NoCert}
  /\ signCertificateLoading \in BOOLEAN /\ guessLoading \in BOOLEAN
  /\ signPc \in {"idle", "getSigner", "signCertificate"}
  /\ nCalls \in 0..MaxCalls


\* ================================================================ claims
GuessInFlight == \E q \in inflight : q.kind = "guess"
QueriesOf(g) == {k \in DOMAIN queriesSent : queriesSent[k].guess = g}

\* C1: every failure inside the Sign Certificate, Guess, Reveal and Reset
\* handlers is caught in the handler; none leaves it as an uncaught
\* exception or an unhandled rejection.
C1_AllFailuresCaught == uncaught = <<>>

\* C2: each Guess submitted while a certificate is held sends exactly one
\* query (never zero, never a second one) and, once the query has settled,
\* exactly one toast has been shown for it: positive or info for an ok
\* result, negative for a rejection, an undecodable response or an err
\* result; and every such guess does get settled.
C2_GuessShape ==
  \A g \in DOMAIN guessLog :
    /\ Cardinality(QueriesOf(g)) = 1
    /\ guessLog[g].settled =>
         /\ Cardinality(guessLog[g].toastKeys) = 1
         /\ \A k \in guessLog[g].toastKeys :
              IF guessLog[g].response.t = "ok"
                THEN toasts[k].kind \in {"positive", "info"}
                ELSE toasts[k].kind = "negative"
C2_OneQueryOneToast ==
  /\ []C2_GuessShape
  /\ \A g \in 1..(MaxCalls + 1) :
       (g \in DOMAIN guessLog) ~> (g \in DOMAIN guessLog /\ guessLog[g].settled)
C2_Witness ==
  \E g \in DOMAIN guessLog :
    /\ guessLog[g].settled
    /\ guessLog[g].response.t = "err"
    /\ Cardinality(QueriesOf(g)) = 1
    /\ \E k \in guessLog[g].toastKeys : toasts[k].kind = "negative"

\* C3: a Guess or Reveal invoked while certificateData is unset sends no
\* query and changes no component state and shows no toast; every query
\* sent carries the certificate held when its handler ran.
C3_NoQueryWithoutCertificate ==
  /\ [][ (nCalls' # nCalls /\ lastCall' \in {"onGuess", "onReveal"}
          /\ certificateData = NoCert)
         => UNCHANGED <<queriesSent, inflight, toasts, gameState, payloads,
                        uncaught, guessLog>> ]_vars
  /\ [][ Len(queriesSent') > Len(queriesSent)
         => /\ certificateData # NoCert
            /\ queriesSent' = Append(queriesSent, queriesSent'[Len(queriesSent')])
            /\ queriesSent'[Len(queriesSent')].cert = certificateData ]_vars
  /\ [](\A k \in DOMAIN queriesSent : queriesSent[k].cert # NoCert)
C3_Witness ==
  /\ lastCall = "onGuess"
  /\ guessLog = <<>>
  /\ queriesSent = <<>>
  /\ GameMounted

\* C4: every request or command payload a handler builds names a variant
\* the registered schema declares for its type (names compared without
\* regard to case).
C4_PayloadsDeclared ==
  \A p \in payloads :
    \E v \in Range(Schema[p.type]) : LowerCase(v) = LowerCase(p.key)

\* C5: a loading flag is true only while an operation of its kind is
\* pending, and every Sign Certificate or Guess that set its flag sets it
\* back to false, whatever the outcome.
C5_LoadingReset ==
  /\ [](signCertificateLoading => signPc # "idle")
  /\ [](guessLoading => GuessInFlight)
  /\ (signCertificateLoading ~> ~signCertificateLoading)
  /\ (guessLoading ~> ~guessLoading)
C5_Witness ==
  /\ GameMounted
  /\ ~guessLoading /\ ~signCertificateLoading
  /\ certificateData # NoCert
  /\ \E g \in DOMAIN guessLog : guessLog[g].settled /\ guessLog[g].response.t = "reject"
  /\ \E k \in DOMAIN toasts : toasts[k].children = "Certificate signed"

\* C6: phala is set only after api; the handlers run only once both are
\* set; createApi and createPhala are each called at most once; and once
\* either has failed exactly one negative toast is there, Game is never
\* rendered and the failure is final.
C6_InitOrder ==
  /\ [](phala => api)
  /\ [](nCalls > 0 => createCalls.phala = 1 /\ initPc = "done")
  /\ [](createCalls.api = 1 /\ createCalls.phala <= 1)
  /\ [](initPc = "failed" =>
          /\ ~GameMounted /\ ~phala /\ nCalls = 0
          /\ Len(toasts) = 1 /\ toasts[1].kind = "negative")
  /\ [][initPc = "failed" => initPc' = "failed"]_vars
C6_Witness ==
  /\ initPc = "failed"
  /\ api /\ ~phala
  /\ page = "mounted"

\* C7: for a Guess whose response decodes to an ok result, the positive
\* toast is shown and the number input cleared exactly when the guess
\* result is Correct; for TooLarge and ToSmall an info toast naming the
\* result is shown and the input is left as it was.
C7_GuessResultShown ==
  \A g \in DOMAIN guessLog :
    (guessLog[g].settled /\ guessLog[g].response.t = "ok" /\ page = "mounted") =>
      \A k \in guessLog[g].toastKeys :
        /\ (guessLog[g].response.inner = "Correct") <=>
             (/\ toasts[k].kind = "positive"
              /\ toasts[k].children = "Correct! Number has been reset"
              /\ guessLog[g].numberAfter = "")
        /\ (guessLog[g].response.inner \in {"TooLarge", "ToSmall"}) =>
             (/\ toasts[k].kind = "info"
              /\ toasts[k].children = guessLog[g].response.inner
              /\ guessLog[g].numberAfter = guessLog[g].numberBefore)

\* C8: the progress toast of a Reset is not orphaned: once the reset has
\* failed at any step (obtaining the signer included) its toast has been
\* cleared and a negative toast shown.
C8_ResetToastNotOrphaned ==
  \A i \in DOMAIN resets :
    resets[i].pc \in {"aborted", "failed"} =>
      /\ toasts[resets[i].toastKey].cleared
      /\ \E k \in DOMAIN toasts : k > resets[i].toastKey /\ toasts[k].kind = "negative"

\* C9: a held certificate was signed for the currently selected account.
C9_CertificateOfAccount ==
  certificateData # NoCert => certificateData = account

\* C10: once Game has unmounted the chain API is disconnected and no status
\* subscription created by Reset is still active.
C10_UnsubscribedAfterUnmount ==
  (page = "unmounted" /\ api /\ phala) => (~apiConnected /\ subscriptions = {})

====
